---- MODULE Spec2Model ----
(***************************************************************************)
(* Model of backend/app/rate_limiter.py: DeviceRateLimiter (per-device     *)
(* session registry, sliding-window HTTP counter, stale-session cleanup)   *)
(* and the check_session_limit dependency.                                 *)
(*                                                                         *)
(* Python strings are sequences of one-character strings.  A dict is a     *)
(* function whose DOMAIN is the set of keys present.  Time is an integer   *)
(* number of seconds read by both time.time() and datetime.now().          *)
(***************************************************************************)
EXTENDS Integers, Sequences, FiniteSets, TLC

VARIABLES
    active_sessions,   \* self._active_sessions: device_id -> {session_id: SessionInfo}
    http_requests,     \* self._http_requests:   device_id -> list of timestamps
    now,               \* the wall clock
    last,              \* the most recent completed call and what it returned
    pc,                \* per thread: position inside the call it is executing
    frame              \* per thread: the call's arguments, locals and outcome

vars == <<active_sessions, http_requests, now, last, pc, frame>>

----------------------------------------------------------------------------
(* Bounds of the model *)

\* DeviceRateLimiter(max_sessions=...): the cap of the instance under test
max_sessions == 2
\* capacity of the request window (module constant, 60 in the source), scaled
MAX_HTTP_REQUESTS_PER_MINUTE == 2
\* number of clock ticks over which the request window is explored
WindowTicks == 3
\* number of concurrently running threads, each making one call
NumThreads == 3

\* length of the request window in seconds: "now - 60"
WINDOW_SECONDS == 60

\* the clock advances in steps of half a window; the session registry is
\* explored until the largest idle threshold has passed once
TickStep == WINDOW_SECONDS \div 2
IdleHorizon == TickStep
MaxTime == WindowTicks * TickStep
\* number of calls kept in the log of the request window
MaxLog == MAX_HTTP_REQUESTS_PER_MINUTE + 2

SessionIds == {"s1", "s2", "s3"}
\* the (session_id, user_id) pairs the callers register: session s1 is
\* registered by either of two users
Registrations == { <<"s1", "u1">>, <<"s1", "u2">>, <<"s2", "u1">>, <<"s3", "u2">> }
\* values passed as max_idle_seconds
IdleChoices == {0, TickStep}
Threads == 1..NumThreads

----------------------------------------------------------------------------
(* dict helpers *)

EmptyDict == [k \in {} |-> k]

DictGet(m, k, default) == IF k \in DOMAIN m THEN m[k] ELSE default

DictSet(m, k, v) == [x \in (DOMAIN m) \cup {k} |-> IF x = k THEN v ELSE m[x]]

DictDel(m, k) == [x \in (DOMAIN m) \ {k} |-> m[x]]

\* defaultdict.__getitem__: a missing key is inserted with the default value
DefaultDictTouch(m, k, default) == IF k \in DOMAIN m THEN m ELSE DictSet(m, k, default)

----------------------------------------------------------------------------
(* str helpers *)

Whitespace == {" "}

LowerChar(c) == IF c = "A" THEN "a" ELSE IF c = "B" THEN "b" ELSE c

\* str.lower()
Lower(s) == [i \in 1..Len(s) |-> LowerChar(s[i])]

RECURSIVE LStrip(_)
LStrip(s) == IF s # <<>> /\ Head(s) \in Whitespace THEN LStrip(Tail(s)) ELSE s

RECURSIVE RStrip(_)
RStrip(s) ==
    IF s # <<>> /\ s[Len(s)] \in Whitespace THEN RStrip(SubSeq(s, 1, Len(s) - 1)) ELSE s

\* str.strip()
Strip(s) == RStrip(LStrip(s))

RECURSIVE SplitFirst(_, _)
\* s.split(sep)[0]: the part of s before the first separator
SplitFirst(s, sep) ==
    IF s = <<>> \/ Head(s) = sep THEN <<>> ELSE <<Head(s)>> \o SplitFirst(Tail(s), sep)

RECURSIVE Join(_, _)
\* sep.join(parts)
Join(parts, sep) ==
    IF parts = <<>> THEN <<>>
    ELSE IF Len(parts) = 1 THEN parts[1]
    ELSE parts[1] \o sep \o Join(Tail(parts), sep)

UNKNOWN == <<"u", "n", "k", "n", "o", "w", "n">>

----------------------------------------------------------------------------
(* Device fingerprinting *)

\* hashlib.sha256(composite.encode()).hexdigest()[:32], taken to be free of
\* collisions: the digest is determined by, and determines, the composite
Sha256Hex32(composite) == [sha256 |-> composite]

\* custom_id is a sequence of zero or one strings (Optional[str])
generate_device_fingerprint(client_ip, user_agent, custom_id) ==
    LET ip_normalized == Lower(Strip(client_ip))
        ua_normalized == Strip(IF user_agent # <<>> THEN user_agent ELSE UNKNOWN)
        components == <<ip_normalized, ua_normalized>>
                      \o (IF custom_id # <<>> /\ custom_id[1] # <<>> THEN custom_id ELSE <<>>)
    IN  Sha256Hex32(Join(components, <<"|">>))

\* the two proxy headers consulted in the opposite order
get_client_ip_RealIpFirst(headers, client) ==
    IF "x-real-ip" \in DOMAIN headers /\ headers["x-real-ip"] # <<>>
    THEN Strip(headers["x-real-ip"])
    ELSE IF "x-forwarded-for" \in DOMAIN headers /\ headers["x-forwarded-for"] # <<>>
    THEN Strip(SplitFirst(headers["x-forwarded-for"], ","))
    ELSE IF client # <<>>
    THEN client[1].host
    ELSE UNKNOWN

\* headers is a dict; client is a sequence of zero or one records with a host
get_client_ip(headers, client) ==
    IF "x-forwarded-for" \in DOMAIN headers /\ headers["x-forwarded-for"] # <<>>
    THEN Strip(SplitFirst(headers["x-forwarded-for"], ","))
    ELSE IF "x-real-ip" \in DOMAIN headers /\ headers["x-real-ip"] # <<>>
    THEN Strip(headers["x-real-ip"])
    ELSE IF client # <<>>
    THEN client[1].host
    ELSE UNKNOWN

get_device_id_from_websocket(websocket) ==
    LET client_ip == get_client_ip(websocket.headers, websocket.client)
        user_agent == DictGet(websocket.headers, "user-agent", UNKNOWN)
    IN  generate_device_fingerprint(client_ip, user_agent, <<>>)

get_device_id_from_request(request) ==
    LET client_ip == get_client_ip(request.headers, request.client)
        user_agent == DictGet(request.headers, "user-agent", UNKNOWN)
    IN  generate_device_fingerprint(client_ip, user_agent, <<>>)

Hdr(k, v) == [x \in {k} |-> v]

\* connections seen by check_session_limit
Websockets ==
    { [headers |-> Hdr("x-forwarded-for", <<"A", ",", " ", "b">>) @@ Hdr("user-agent", <<"x">>),
       client  |-> <<[host |-> <<"b">>]>>],
      [headers |-> Hdr("x-real-ip", <<" ", "a", " ">>) @@ Hdr("user-agent", <<"x", " ">>),
       client  |-> <<>>],
      [headers |-> EmptyDict,
       client  |-> <<[host |-> <<"b">>]>>],
      [headers |-> Hdr("user-agent", <<>>),
       client  |-> <<[host |-> <<"b">>]>>] }

\* device ids the callers pass to the limiter
DeviceIds == { get_device_id_from_websocket(ws) : ws \in Websockets }

----------------------------------------------------------------------------
(* DeviceRateLimiter: the methods as functions of the state they read *)

\* the timestamps defaulting to the time the class was defined, not to the
\* time the record is made
SessionInfo_DefaultAtImport(session_id, user_id, t) ==
    [session_id |-> session_id, user_id |-> user_id, created_at |-> 0, last_activity |-> 0]

\* SessionInfo(session_id, user_id): both timestamps default to datetime.now()
SessionInfo(session_id, user_id, t) ==
    [session_id |-> session_id, user_id |-> user_id, created_at |-> t, last_activity |-> t]

\* "len(self._active_sessions)": the devices counted instead of the sessions
get_active_session_count_Devices(sessions, device_id) ==
    Cardinality(DOMAIN sessions)

get_active_session_count(sessions, device_id) ==
    Cardinality(DOMAIN DictGet(sessions, device_id, EmptyDict))

\* off-by-one boundary: "<=" where the code compares with "<"
can_create_session_AtMost(sessions, device_id) ==
    get_active_session_count(sessions, device_id) <= max_sessions

can_create_session(sessions, device_id) ==
    get_active_session_count(sessions, device_id) < max_sessions

\* whether the record (device_id, session_id) is in the registry; the calls
\* note it in "last" for the properties below, the program does not use it
HasSession(sessions, device_id, session_id) ==
    device_id \in DOMAIN sessions /\ session_id \in DOMAIN sessions[device_id]

\* dict.setdefault instead of assignment: an existing record is kept
StoreSession_SetDefault(sessions, device_id, session_id, info) ==
    LET touched == DefaultDictTouch(sessions, device_id, EmptyDict)
    IN  IF session_id \in DOMAIN touched[device_id] THEN touched
        ELSE DictSet(touched, device_id, DictSet(touched[device_id], session_id, info))

\* self._active_sessions[device_id][session_id] = info
StoreSession(sessions, device_id, session_id, info) ==
    LET touched == DefaultDictTouch(sessions, device_id, EmptyDict)
    IN  DictSet(touched, device_id, DictSet(touched[device_id], session_id, info))

\* "self._active_sessions[device_id].clear()" in place of the del of one key
DeleteSession_Clear(sessions, device_id, session_id) ==
    DictSet(sessions, device_id, EmptyDict)

\* del self._active_sessions[device_id][session_id]
\* the cap not tested again by a caller that was admitted before
register_session_Unchecked(sessions, device_id, session_id, user_id, t) ==
    [sessions |-> StoreSession(sessions, device_id, session_id,
                               SessionInfo(session_id, user_id, t)),
     ret |-> TRUE]

\* register_session called at time t: the registry afterwards and the result
register_session(sessions, device_id, session_id, user_id, t) ==
    IF ~can_create_session(sessions, device_id)
    THEN [sessions |-> sessions, ret |-> FALSE]
    ELSE [sessions |-> StoreSession(sessions, device_id, session_id,
                                    SessionInfo(session_id, user_id, t)),
          ret |-> TRUE]

\* the session id removed from every device that holds it
DeleteSession_EveryDevice(sessions, device_id, session_id) ==
    [d \in DOMAIN sessions |-> DictDel(sessions[d], session_id)]

DeleteSession(sessions, device_id, session_id) ==
    DictSet(sessions, device_id, DictDel(sessions[device_id], session_id))

\* "total_sessions": the devices counted instead of their sessions
get_stats_CountsDevices(sessions) ==
    [total_devices |-> Cardinality(DOMAIN sessions),
     total_sessions |-> Cardinality(DOMAIN sessions),
     max_sessions_per_device |-> max_sessions]

get_stats(sessions) ==
    LET RECURSIVE Sum(_)
        Sum(ds) == IF ds = {} THEN 0
                   ELSE LET d == CHOOSE x \in ds : TRUE
                        IN  Cardinality(DOMAIN sessions[d]) + Sum(ds \ {d})
    IN  [total_devices |-> Cardinality(DOMAIN sessions),
         total_sessions |-> Sum(DOMAIN sessions),
         max_sessions_per_device |-> max_sessions]

\* ">=" where the code compares with ">": a timestamp exactly one window old
\* is kept
PruneRequests_AtLeast(requests, window_start) ==
    SelectSeq(requests, LAMBDA ts : ts >= window_start)

\* the pruning left out: every timestamp is kept
PruneRequests_KeepAll(requests, window_start) == requests

\* the list comprehension of check_http_rate_limit
PruneRequests(requests, window_start) == SelectSeq(requests, LAMBDA ts : ts > window_start)

\* off-by-one capacity check: ">" where the code compares with ">="
check_http_rate_limit_Over(requests, device_id, t) ==
    LET window_start == t - WINDOW_SECONDS
        touched == DefaultDictTouch(requests, device_id, <<>>)
        cleaned == DictSet(touched, device_id, PruneRequests(touched[device_id], window_start))
    IN  IF Len(cleaned[device_id]) > MAX_HTTP_REQUESTS_PER_MINUTE
        THEN [requests |-> cleaned, ret |-> FALSE]
        ELSE [requests |-> DictSet(cleaned, device_id, Append(cleaned[device_id], t)),
              ret |-> TRUE]

\* check_http_rate_limit called at time t: the dict afterwards and the result
check_http_rate_limit(requests, device_id, t) ==
    LET window_start == t - WINDOW_SECONDS
        touched == DefaultDictTouch(requests, device_id, <<>>)
        cleaned == DictSet(touched, device_id, PruneRequests(touched[device_id], window_start))
    IN  IF Len(cleaned[device_id]) >= MAX_HTTP_REQUESTS_PER_MINUTE
        THEN [requests |-> cleaned, ret |-> FALSE]
        ELSE [requests |-> DictSet(cleaned, device_id, Append(cleaned[device_id], t)),
              ret |-> TRUE]

\* the clean-up of empty device entries left out
DropIfEmpty_Never(sessions, device_id) ==
    DefaultDictTouch(sessions, device_id, EmptyDict)

\* "if not self._active_sessions[device_id]: del self._active_sessions[device_id]"
DropIfEmpty(sessions, device_id) ==
    LET touched == DefaultDictTouch(sessions, device_id, EmptyDict)
    IN  IF DOMAIN touched[device_id] = {} THEN DictDel(touched, device_id) ELSE touched

\* ">=" where the code compares with ">"
IsStale_AtLeast(session, t, max_idle_seconds) ==
    t - session.last_activity >= max_idle_seconds

\* "idle_time > max_idle_seconds" for one SessionInfo
IsStale(session, t, max_idle_seconds) ==
    t - session.last_activity > max_idle_seconds

RECURSIVE CleanupEntry(_, _, _, _, _, _)
\* inner loop of cleanup_stale_sessions over the session ids still to visit;
\* the singleton sets bind the loop variables to their values at this
\* iteration: the dict so far, the count so far, the session id visited
CleanupEntry(sessions, device_id, ids, t, max_idle_seconds, cleaned) ==
    IF ids = {} THEN [sessions |-> sessions, cleaned |-> cleaned]
    ELSE CHOOSE result \in
           { IF IsStale(so_far[device_id][session_id], t, max_idle_seconds)
             THEN CleanupEntry(DeleteSession(so_far, device_id, session_id), device_id,
                               ids \ {session_id}, t, max_idle_seconds, count + 1)
             ELSE CleanupEntry(so_far, device_id, ids \ {session_id}, t,
                               max_idle_seconds, count) :
               so_far \in {sessions}, count \in {cleaned},
               session_id \in {CHOOSE x \in ids : TRUE} } : TRUE

RECURSIVE CleanupDevices(_, _, _, _, _)
\* outer loop of cleanup_stale_sessions over the device ids still to visit;
\* inner is the outcome of the inner loop for the device id visited
CleanupDevices(sessions, ids, t, max_idle_seconds, cleaned) ==
    IF ids = {} THEN [sessions |-> sessions, cleaned |-> cleaned]
    ELSE CHOOSE result \in
           { CleanupDevices(DropIfEmpty(inner.sessions, device_id), ids \ {device_id}, t,
                            max_idle_seconds, inner.cleaned) :
               device_id \in {CHOOSE x \in ids : TRUE},
               inner \in { CleanupEntry(sessions, d, DOMAIN sessions[d], t,
                                        max_idle_seconds, cleaned) :
                             d \in {CHOOSE x \in ids : TRUE} } } : TRUE

\* the stale sessions counted but left in the registry
cleanup_stale_sessions_CountOnly(sessions, t, max_idle_seconds) ==
    [sessions |-> sessions,
     cleaned |-> CleanupDevices(sessions, DOMAIN sessions, t, max_idle_seconds, 0).cleaned]

cleanup_stale_sessions(sessions, t, max_idle_seconds) ==
    CleanupDevices(sessions, DOMAIN sessions, t, max_idle_seconds, 0)

----------------------------------------------------------------------------
(* Initial state: a freshly constructed DeviceRateLimiter, no call running *)

NoCall == [op |-> "none"]

Init ==
    /\ active_sessions = EmptyDict
    /\ http_requests = EmptyDict
    /\ now = 0
    /\ last = NoCall
    /\ pc = [t \in Threads |-> "idle"]
    /\ frame = [t \in Threads |-> NoCall]

----------------------------------------------------------------------------
(* Calls made one after the other: each action is one whole call *)

Tick(horizon) ==
    /\ now + TickStep <= horizon
    /\ now' = now + TickStep
    /\ UNCHANGED <<active_sessions, http_requests, last, pc, frame>>

\* time passes between calls on the session registry
TickRegistry == Tick(IdleHorizon)

\* time passes between calls on the request window
TickWindow == Tick(MaxTime)

GetActiveSessionCount(device_id) ==
    /\ last' = [op |-> "get_active_session_count", device_id |-> device_id,
                ret |-> get_active_session_count(active_sessions, device_id)]
    /\ UNCHANGED <<active_sessions, http_requests, now, pc, frame>>

CanCreateSession(device_id) ==
    /\ last' = [op |-> "can_create_session", device_id |-> device_id,
                ret |-> can_create_session(active_sessions, device_id)]
    /\ UNCHANGED <<active_sessions, http_requests, now, pc, frame>>

\* the cap tested for new session ids only: an id the device already holds is
\* registered again whatever the count
RegisterSession_ReplaceAtCap(device_id, session_id, user_id) ==
    /\ IF /\ ~can_create_session(active_sessions, device_id)
          /\ ~HasSession(active_sessions, device_id, session_id)
       THEN /\ last' = [op |-> "register_session", device_id |-> device_id,
                        session_id |-> session_id, user_id |-> user_id, ret |-> FALSE,
                        was_present |-> HasSession(active_sessions, device_id, session_id)]
            /\ UNCHANGED active_sessions
       ELSE /\ active_sessions' = StoreSession(active_sessions, device_id, session_id,
                                               SessionInfo(session_id, user_id, now))
            /\ last' = [op |-> "register_session", device_id |-> device_id,
                        session_id |-> session_id, user_id |-> user_id, ret |-> TRUE,
                        was_present |-> HasSession(active_sessions, device_id, session_id)]
    /\ UNCHANGED <<http_requests, now, pc, frame>>

RegisterSession(device_id, session_id, user_id) ==
    /\ IF ~can_create_session(active_sessions, device_id)
       THEN /\ last' = [op |-> "register_session", device_id |-> device_id,
                        session_id |-> session_id, user_id |-> user_id, ret |-> FALSE,
                        was_present |-> HasSession(active_sessions, device_id, session_id)]
            /\ UNCHANGED active_sessions
       ELSE /\ active_sessions' = StoreSession(active_sessions, device_id, session_id,
                                               SessionInfo(session_id, user_id, now))
            /\ last' = [op |-> "register_session", device_id |-> device_id,
                        session_id |-> session_id, user_id |-> user_id, ret |-> TRUE,
                        was_present |-> HasSession(active_sessions, device_id, session_id)]
    /\ UNCHANGED <<http_requests, now, pc, frame>>

UnregisterSession(device_id, session_id) ==
    /\ IF /\ device_id \in DOMAIN active_sessions
          /\ session_id \in DOMAIN active_sessions[device_id]
       THEN LET deleted == DeleteSession(active_sessions, device_id, session_id)
            IN  /\ active_sessions' = DropIfEmpty(deleted, device_id)
                /\ last' = [op |-> "unregister_session", device_id |-> device_id,
                            session_id |-> session_id, ret |-> TRUE]
       ELSE /\ last' = [op |-> "unregister_session", device_id |-> device_id,
                        session_id |-> session_id, ret |-> FALSE]
            /\ UNCHANGED active_sessions
    /\ UNCHANGED <<http_requests, now, pc, frame>>

CheckHttpRateLimit(device_id) ==
    LET run == check_http_rate_limit(http_requests, device_id, now)
    IN  /\ http_requests' = run.requests
        /\ last' = [op |-> "check_http_rate_limit", device_id |-> device_id,
                    at |-> now, ret |-> run.ret]
        /\ UNCHANGED <<active_sessions, now, pc, frame>>

\* the calls logged so far (kept in "last" by the logged calls), oldest first
CallLog == IF "calls" \in DOMAIN last THEN last.calls ELSE <<>>

\* check_http_rate_limit again, with the call and its result appended to a log
\* of the calls; the log, kept in "last", is not used by the program
CheckHttpRateLimitLogged(device_id) ==
    LET run == check_http_rate_limit(http_requests, device_id, now)
    IN  /\ Len(CallLog) < MaxLog
        /\ http_requests' = run.requests
        /\ last' = [op |-> "check_http_rate_limit", device_id |-> device_id,
                    at |-> now, ret |-> run.ret,
                    calls |-> Append(CallLog, [device_id |-> device_id, at |-> now,
                                               ret |-> run.ret])]
        /\ UNCHANGED <<active_sessions, now, pc, frame>>

GetRateLimitErrorResponse(device_id) ==
    /\ last' = [op |-> "get_rate_limit_error_response", device_id |-> device_id,
                ret |-> [status_code |-> 429,
                         error |-> "rate_limit_exceeded",
                         current_sessions |-> get_active_session_count(active_sessions, device_id),
                         max_sessions |-> max_sessions]]
    /\ UNCHANGED <<active_sessions, http_requests, now, pc, frame>>

CleanupStaleSessions(max_idle_seconds) ==
    LET run == cleanup_stale_sessions(active_sessions, now, max_idle_seconds)
    IN  /\ active_sessions' = run.sessions
        /\ last' = [op |-> "cleanup_stale_sessions", max_idle_seconds |-> max_idle_seconds,
                    at |-> now, ret |-> run.cleaned]
        /\ UNCHANGED <<http_requests, now, pc, frame>>

GetStats ==
    /\ last' = [op |-> "get_stats", ret |-> get_stats(active_sessions)]
    /\ UNCHANGED <<active_sessions, http_requests, now, pc, frame>>

CheckSessionLimit(websocket) ==
    LET device_id == get_device_id_from_websocket(websocket)
    IN  /\ IF ~can_create_session(active_sessions, device_id)
           THEN last' = [op |-> "check_session_limit", websocket |-> websocket,
                         raised |-> TRUE,
                         detail |-> [status_code |-> 429,
                                     error |-> "session_limit_exceeded",
                                     current |-> get_active_session_count(active_sessions,
                                                                          device_id)]]
           ELSE last' = [op |-> "check_session_limit", websocket |-> websocket,
                         raised |-> FALSE, ret |-> device_id]
        /\ UNCHANGED <<active_sessions, http_requests, now, pc, frame>>

\* calls on the session registry and on the admission dependency
Next ==
    \/ TickRegistry
    \/ \E d \in DeviceIds : GetActiveSessionCount(d)
    \/ \E d \in DeviceIds : CanCreateSession(d)
    \/ \E d \in DeviceIds, r \in Registrations : RegisterSession(d, r[1], r[2])
    \/ \E d \in DeviceIds, s \in SessionIds : UnregisterSession(d, s)
    \/ \E d \in DeviceIds : GetRateLimitErrorResponse(d)
    \/ \E i \in IdleChoices : CleanupStaleSessions(i)
    \/ GetStats
    \/ \E ws \in Websockets : CheckSessionLimit(ws)

Spec == Init /\ [][Next]_vars

\* every operation, on a workload of two sessions of one user per device
SessionIdsAll == {"s1", "s2"}
UserIdsAll == {"u1"}

NextAll ==
    \/ TickRegistry
    \/ \E d \in DeviceIds : GetActiveSessionCount(d)
    \/ \E d \in DeviceIds : CanCreateSession(d)
    \/ \E d \in DeviceIds, s \in SessionIdsAll, u \in UserIdsAll : RegisterSession(d, s, u)
    \/ \E d \in DeviceIds, s \in SessionIdsAll : UnregisterSession(d, s)
    \/ \E d \in DeviceIds : CheckHttpRateLimit(d)
    \/ \E d \in DeviceIds : GetRateLimitErrorResponse(d)
    \/ \E i \in IdleChoices : CleanupStaleSessions(i)
    \/ GetStats
    \/ \E ws \in Websockets : CheckSessionLimit(ws)

SpecAll == Init /\ [][NextAll]_vars

\* calls on the sliding-window counter
NextWindow ==
    \/ TickWindow
    \/ \E d \in DeviceIds : CheckHttpRateLimitLogged(d)

SpecWindow == Init /\ [][NextWindow]_vars

\* header values and peers of the connections whose device id is derived
\* (<<>> as a set element below stands for "header not sent" / "no peer")
ForwardedValues ==
    { <<"a">>, <<"A", ",", " ", "b">>, <<" ", "a", " ", ",", "b">>, <<",", "b">>,
      <<" ">>, <<>> }

RealIpValues == { <<"b">>, <<" ", "a", " ">>, <<>> }

AgentValues == { <<"x">>, <<" ", "x">>, UNKNOWN, <<>> }

Peers == { <<>>, <<[host |-> <<"a">>]>>, <<[host |-> <<"b">>]>> }

\* a header map from the headers that were sent; each is a sequence of zero or
\* one values
HeaderMap(forwarded, real_ip, agent) ==
    (IF forwarded # <<>> THEN Hdr("x-forwarded-for", forwarded[1]) ELSE EmptyDict)
    @@ (IF real_ip # <<>> THEN Hdr("x-real-ip", real_ip[1]) ELSE EmptyDict)
    @@ (IF agent # <<>> THEN Hdr("user-agent", agent[1]) ELSE EmptyDict)

Sent(values) == { <<>> } \cup { <<v>> : v \in values }

Connections ==
    { [headers |-> HeaderMap(f, r, a), client |-> c] :
        f \in Sent(ForwardedValues), r \in Sent(RealIpValues),
        a \in Sent(AgentValues), c \in Peers }

GetDeviceIdFromWebsocket(websocket) ==
    /\ last' = [op |-> "get_device_id_from_websocket", connection |-> websocket,
                ret |-> get_device_id_from_websocket(websocket)]
    /\ UNCHANGED <<active_sessions, http_requests, now, pc, frame>>

GetDeviceIdFromRequest(request) ==
    /\ last' = [op |-> "get_device_id_from_request", connection |-> request,
                ret |-> get_device_id_from_request(request)]
    /\ UNCHANGED <<active_sessions, http_requests, now, pc, frame>>

\* device ids derived for websocket connections and for HTTP requests
NextFingerprint ==
    \/ \E ws \in Connections : GetDeviceIdFromWebsocket(ws)
    \/ \E request \in Connections : GetDeviceIdFromRequest(request)

SpecFingerprint == Init /\ [][NextFingerprint]_vars

\* the clients of the reclamation run register until LastRegistration; the
\* clock then has room to pass the idle horizon of every session
LastRegistration == TickStep

ReclaimHorizon == LastRegistration + IdleHorizon + TickStep

TickReclaim == Tick(ReclaimHorizon)

\* the background task that sweeps the registry again and again; the module
\* only provides cleanup_stale_sessions and SESSION_CLEANUP_INTERVAL for it
ReclaimTask == CleanupStaleSessions(IdleHorizon)

RegisterForReclaim(device_id, session_id) ==
    /\ now <= LastRegistration
    /\ RegisterSession(device_id, session_id, "u1")

\* clients that register and unregister, or abandon their sessions, while
\* time passes and the background task sweeps
NextReclaim ==
    \/ TickReclaim
    \/ ReclaimTask
    \/ \E d \in DeviceIds, s \in SessionIds : RegisterForReclaim(d, s)
    \/ \E d \in DeviceIds, s \in SessionIds : UnregisterSession(d, s)

\* time keeps advancing and the periodic task keeps being run
SpecReclaim ==
    Init /\ [][NextReclaim]_vars /\ WF_vars(TickReclaim) /\ WF_vars(ReclaimTask)

\* register_session again, with the call appended to the log of the calls
RegisterSessionLogged(device_id, session_id, user_id) ==
    LET ret == can_create_session(active_sessions, device_id)
    IN  /\ Len(CallLog) < MaxLog
        /\ IF ~ret
           THEN UNCHANGED active_sessions
           ELSE active_sessions' = StoreSession(active_sessions, device_id, session_id,
                                                SessionInfo(session_id, user_id, now))
        /\ last' = [op |-> "register_session", device_id |-> device_id,
                    session_id |-> session_id, user_id |-> user_id, ret |-> ret,
                    was_present |-> HasSession(active_sessions, device_id, session_id),
                    calls |-> Append(CallLog, [device_id |-> device_id, at |-> now,
                                               ret |-> ret])]
        /\ UNCHANGED <<http_requests, now, pc, frame>>

\* cleanup_stale_sessions again, the log of the devices' calls carried along
CleanupStaleSessionsLogged(max_idle_seconds) ==
    LET run == cleanup_stale_sessions(active_sessions, now, max_idle_seconds)
    IN  /\ active_sessions' = run.sessions
        /\ last' = [op |-> "cleanup_stale_sessions", max_idle_seconds |-> max_idle_seconds,
                    at |-> now, ret |-> run.cleaned, calls |-> CallLog]
        /\ UNCHANGED <<http_requests, now, pc, frame>>

\* devices that register sessions and send requests while the registry is
\* swept, with the log of their calls
NextStorage ==
    \/ TickWindow
    \/ \E d \in DeviceIds : CheckHttpRateLimitLogged(d)
    \/ \E d \in DeviceIds, s \in SessionIdsAll, u \in UserIdsAll :
          RegisterSessionLogged(d, s, u)
    \/ \E i \in IdleChoices : CleanupStaleSessionsLogged(i)

SpecStorage == Init /\ [][NextStorage]_vars

----------------------------------------------------------------------------
(* Calls made by concurrent threads.  The class takes no lock                *)
(* (_lock_placeholder is None), so a call is a sequence of steps, one per    *)
(* statement that reads or writes the shared dicts, and the steps of         *)
(* different threads interleave.  Each thread makes one call.                *)

Finish(t, result) ==
    /\ pc' = [pc EXCEPT ![t] = "done"]
    /\ frame' = [frame EXCEPT ![t] = [@ EXCEPT !.ret = result]]

Raise(t, error) ==
    /\ pc' = [pc EXCEPT ![t] = "done"]
    /\ frame' = [frame EXCEPT ![t] = [@ EXCEPT !.raised = error]]

Goto(t, label) == pc' = [pc EXCEPT ![t] = label]

\* --- register_session ---

CallRegister(t, device_id, session_id, user_id) ==
    /\ pc[t] = "idle"
    /\ Goto(t, "reg_check")
    /\ frame' = [frame EXCEPT ![t] = [op |-> "register_session", device_id |-> device_id,
                                      session_id |-> session_id, user_id |-> user_id,
                                      at |-> 0, ret |-> FALSE, raised |-> ""]]
    /\ UNCHANGED <<active_sessions, http_requests, now, last>>

\* "if not self.can_create_session(device_id): return False"
RegCheck(t) ==
    /\ pc[t] = "reg_check"
    /\ IF ~can_create_session(active_sessions, frame[t].device_id)
       THEN Finish(t, FALSE)
       ELSE Goto(t, "reg_store") /\ UNCHANGED frame
    /\ UNCHANGED <<active_sessions, http_requests, now, last>>

\* "self._active_sessions[device_id][session_id] = SessionInfo(...); return True"
RegStore(t) ==
    /\ pc[t] = "reg_store"
    /\ active_sessions' = StoreSession(active_sessions, frame[t].device_id, frame[t].session_id,
                                       SessionInfo(frame[t].session_id, frame[t].user_id, now))
    /\ pc' = [pc EXCEPT ![t] = "done"]
    /\ frame' = [frame EXCEPT ![t] = [@ EXCEPT !.ret = TRUE, !.at = now]]
    /\ UNCHANGED <<http_requests, now, last>>

\* --- unregister_session ---

CallUnregister(t, device_id, session_id) ==
    /\ pc[t] = "idle"
    /\ Goto(t, "unreg_has_device")
    /\ frame' = [frame EXCEPT ![t] = [op |-> "unregister_session", device_id |-> device_id,
                                      session_id |-> session_id, ret |-> FALSE, raised |-> ""]]
    /\ UNCHANGED <<active_sessions, http_requests, now, last>>

\* "if device_id in self._active_sessions:"
UnregHasDevice(t) ==
    /\ pc[t] = "unreg_has_device"
    /\ IF frame[t].device_id \in DOMAIN active_sessions
       THEN Goto(t, "unreg_has_session") /\ UNCHANGED frame
       ELSE Finish(t, FALSE)
    /\ UNCHANGED <<active_sessions, http_requests, now, last>>

\* "if session_id in self._active_sessions[device_id]:"
UnregHasSession(t) ==
    LET touched == DefaultDictTouch(active_sessions, frame[t].device_id, EmptyDict)
    IN  /\ pc[t] = "unreg_has_session"
        /\ active_sessions' = touched
        /\ IF frame[t].session_id \in DOMAIN touched[frame[t].device_id]
           THEN Goto(t, "unreg_del_session") /\ UNCHANGED frame
           ELSE Finish(t, FALSE)
        /\ UNCHANGED <<http_requests, now, last>>

\* "del self._active_sessions[device_id][session_id]"
UnregDelSession(t) ==
    LET touched == DefaultDictTouch(active_sessions, frame[t].device_id, EmptyDict)
    IN  /\ pc[t] = "unreg_del_session"
        /\ IF frame[t].session_id \in DOMAIN touched[frame[t].device_id]
           THEN /\ active_sessions' = DeleteSession(touched, frame[t].device_id,
                                                    frame[t].session_id)
                /\ Goto(t, "unreg_if_empty")
                /\ UNCHANGED frame
           ELSE /\ active_sessions' = touched
                /\ Raise(t, "KeyError")
        /\ UNCHANGED <<http_requests, now, last>>

\* "if not self._active_sessions[device_id]:" ... else "return True"
UnregIfEmpty(t) ==
    LET touched == DefaultDictTouch(active_sessions, frame[t].device_id, EmptyDict)
    IN  /\ pc[t] = "unreg_if_empty"
        /\ active_sessions' = touched
        /\ IF DOMAIN touched[frame[t].device_id] = {}
           THEN Goto(t, "unreg_del_device") /\ UNCHANGED frame
           ELSE Finish(t, TRUE)
        /\ UNCHANGED <<http_requests, now, last>>

\* "del self._active_sessions[device_id]; return True"
UnregDelDevice(t) ==
    /\ pc[t] = "unreg_del_device"
    /\ IF frame[t].device_id \in DOMAIN active_sessions
       THEN /\ active_sessions' = DictDel(active_sessions, frame[t].device_id)
            /\ Finish(t, TRUE)
       ELSE /\ UNCHANGED active_sessions
            /\ Raise(t, "KeyError")
    /\ UNCHANGED <<http_requests, now, last>>

\* --- cleanup_stale_sessions ---

CallCleanup(t, max_idle_seconds) ==
    /\ pc[t] = "idle"
    /\ Goto(t, "cleanup_start")
    /\ frame' = [frame EXCEPT ![t] = [op |-> "cleanup_stale_sessions",
                                      max_idle_seconds |-> max_idle_seconds,
                                      now |-> 0, cleaned |-> 0, devices |-> {},
                                      device_id |-> "", sessions |-> {}, session_id |-> "",
                                      ret |-> 0, raised |-> ""]]
    /\ UNCHANGED <<active_sessions, http_requests, now, last>>

\* "now = datetime.now(); cleaned = 0; ... list(self._active_sessions.keys())"
CleanupStart(t) ==
    /\ pc[t] = "cleanup_start"
    /\ Goto(t, "cleanup_next_device")
    /\ frame' = [frame EXCEPT ![t] = [@ EXCEPT !.now = now,
                                               !.devices = DOMAIN active_sessions]]
    /\ UNCHANGED <<active_sessions, http_requests, now, last>>

\* "for device_id in ...:" with "list(self._active_sessions[device_id].keys())",
\* or "return cleaned" when the devices are exhausted
CleanupNextDevice(t) ==
    /\ pc[t] = "cleanup_next_device"
    /\ IF frame[t].devices = {}
       THEN /\ Finish(t, frame[t].cleaned)
            /\ UNCHANGED active_sessions
       ELSE \E device_id \in frame[t].devices :
              LET touched == DefaultDictTouch(active_sessions, device_id, EmptyDict)
              IN  /\ active_sessions' = touched
                  /\ Goto(t, "cleanup_next_session")
                  /\ frame' = [frame EXCEPT ![t] =
                                  [@ EXCEPT !.devices = @ \ {device_id},
                                            !.device_id = device_id,
                                            !.sessions = DOMAIN touched[device_id]]]
    /\ UNCHANGED <<http_requests, now, last>>

\* "for session_id in ...: session = self._active_sessions[device_id][session_id];
\*  idle_time = ...; if idle_time > max_idle_seconds:"
CleanupNextSession(t) ==
    /\ pc[t] = "cleanup_next_session"
    /\ IF frame[t].sessions = {}
       THEN /\ Goto(t, "cleanup_if_empty")
            /\ UNCHANGED <<frame, active_sessions>>
       ELSE \E session_id \in frame[t].sessions :
              LET touched == DefaultDictTouch(active_sessions, frame[t].device_id, EmptyDict)
              IN  /\ active_sessions' = touched
                  /\ IF session_id \notin DOMAIN touched[frame[t].device_id]
                     THEN Raise(t, "KeyError")
                     ELSE /\ frame' = [frame EXCEPT ![t] =
                                          [@ EXCEPT !.sessions = @ \ {session_id},
                                                    !.session_id = session_id]]
                          /\ IF IsStale(touched[frame[t].device_id][session_id],
                                        frame[t].now, frame[t].max_idle_seconds)
                             THEN Goto(t, "cleanup_del_session")
                             ELSE UNCHANGED pc
    /\ UNCHANGED <<http_requests, now, last>>

\* "del self._active_sessions[device_id][session_id]; cleaned += 1"
CleanupDelSession(t) ==
    LET touched == DefaultDictTouch(active_sessions, frame[t].device_id, EmptyDict)
    IN  /\ pc[t] = "cleanup_del_session"
        /\ IF frame[t].session_id \in DOMAIN touched[frame[t].device_id]
           THEN /\ active_sessions' = DeleteSession(touched, frame[t].device_id,
                                                    frame[t].session_id)
                /\ Goto(t, "cleanup_next_session")
                /\ frame' = [frame EXCEPT ![t] = [@ EXCEPT !.cleaned = @ + 1]]
           ELSE /\ active_sessions' = touched
                /\ Raise(t, "KeyError")
        /\ UNCHANGED <<http_requests, now, last>>

\* "if not self._active_sessions[device_id]:"
CleanupIfEmpty(t) ==
    LET touched == DefaultDictTouch(active_sessions, frame[t].device_id, EmptyDict)
    IN  /\ pc[t] = "cleanup_if_empty"
        /\ active_sessions' = touched
        /\ IF DOMAIN touched[frame[t].device_id] = {}
           THEN Goto(t, "cleanup_del_device")
           ELSE Goto(t, "cleanup_next_device")
        /\ UNCHANGED <<frame, http_requests, now, last>>

\* "del self._active_sessions[device_id]"
CleanupDelDevice(t) ==
    /\ pc[t] = "cleanup_del_device"
    /\ IF frame[t].device_id \in DOMAIN active_sessions
       THEN /\ active_sessions' = DictDel(active_sessions, frame[t].device_id)
            /\ Goto(t, "cleanup_next_device")
            /\ UNCHANGED frame
       ELSE /\ UNCHANGED active_sessions
            /\ Raise(t, "KeyError")
    /\ UNCHANGED <<http_requests, now, last>>

\* --- check_http_rate_limit ---

CallCheckHttp(t, device_id) ==
    /\ pc[t] = "idle"
    /\ Goto(t, "http_now")
    /\ frame' = [frame EXCEPT ![t] = [op |-> "check_http_rate_limit", device_id |-> device_id,
                                      now |-> 0, pruned |-> <<>>, ret |-> FALSE,
                                      raised |-> ""]]
    /\ UNCHANGED <<active_sessions, http_requests, now, last>>

\* "now = time.time(); window_start = now - 60"
HttpNow(t) ==
    /\ pc[t] = "http_now"
    /\ Goto(t, "http_prune_read")
    /\ frame' = [frame EXCEPT ![t] = [@ EXCEPT !.now = now]]
    /\ UNCHANGED <<active_sessions, http_requests, now, last>>

\* "[ts for ts in self._http_requests[device_id] if ts > window_start]"
HttpPruneRead(t) ==
    LET touched == DefaultDictTouch(http_requests, frame[t].device_id, <<>>)
    IN  /\ pc[t] = "http_prune_read"
        /\ http_requests' = touched
        /\ Goto(t, "http_prune_write")
        /\ frame' = [frame EXCEPT ![t] =
                        [@ EXCEPT !.pruned = PruneRequests(touched[frame[t].device_id],
                                                           frame[t].now - WINDOW_SECONDS)]]
        /\ UNCHANGED <<active_sessions, now, last>>

\* "self._http_requests[device_id] = ..."
HttpPruneWrite(t) ==
    /\ pc[t] = "http_prune_write"
    /\ http_requests' = DictSet(http_requests, frame[t].device_id, frame[t].pruned)
    /\ Goto(t, "http_check")
    /\ UNCHANGED <<frame, active_sessions, now, last>>

\* "if len(self._http_requests[device_id]) >= MAX_HTTP_REQUESTS_PER_MINUTE: return False"
HttpCheck(t) ==
    LET touched == DefaultDictTouch(http_requests, frame[t].device_id, <<>>)
    IN  /\ pc[t] = "http_check"
        /\ http_requests' = touched
        /\ IF Len(touched[frame[t].device_id]) >= MAX_HTTP_REQUESTS_PER_MINUTE
           THEN Finish(t, FALSE)
           ELSE Goto(t, "http_append") /\ UNCHANGED frame
        /\ UNCHANGED <<active_sessions, now, last>>

\* "self._http_requests[device_id].append(now); return True"
HttpAppend(t) ==
    LET touched == DefaultDictTouch(http_requests, frame[t].device_id, <<>>)
    IN  /\ pc[t] = "http_append"
        /\ http_requests' = DictSet(touched, frame[t].device_id,
                                    Append(touched[frame[t].device_id], frame[t].now))
        /\ Finish(t, TRUE)
        /\ UNCHANGED <<active_sessions, now, last>>

\* thread t registers the session id of its own: the ids are pairwise distinct
SessionIdOf(t) == IF t = 1 THEN "s1" ELSE IF t = 2 THEN "s2" ELSE "s3"

\* concurrent register_session calls and nothing else
NextRegisterThreads ==
    \/ \E t \in Threads, d \in DeviceIds : CallRegister(t, d, SessionIdOf(t), "u1")
    \/ \E t \in Threads : RegCheck(t)
    \/ \E t \in Threads : RegStore(t)

SpecRegisterThreads == Init /\ [][NextRegisterThreads]_vars

\* concurrent check_http_rate_limit calls while the clock stands still
NextHttpThreads ==
    \/ \E t \in Threads, d \in DeviceIds : CallCheckHttp(t, d)
    \/ \E t \in Threads : HttpNow(t)
    \/ \E t \in Threads : HttpPruneRead(t)
    \/ \E t \in Threads : HttpPruneWrite(t)
    \/ \E t \in Threads : HttpCheck(t)
    \/ \E t \in Threads : HttpAppend(t)

SpecHttpThreads == Init /\ [][NextHttpThreads]_vars

\* cleanup_stale_sessions next to register_session and unregister_session:
\* thread 1 runs the cleanup, the others register or unregister
Cleaners == { t \in Threads : t = 1 }
Registrars == { t \in Threads : t > 1 /\ t % 2 = 0 }
Unregistrars == { t \in Threads : t > 1 /\ t % 2 = 1 }

NextCleanupThreads ==
    \/ TickRegistry
    \/ \E t \in Registrars, d \in DeviceIds, s \in SessionIdsAll : CallRegister(t, d, s, "u1")
    \/ \E t \in Threads : RegCheck(t)
    \/ \E t \in Threads : RegStore(t)
    \/ \E t \in Unregistrars, d \in DeviceIds, s \in SessionIdsAll : CallUnregister(t, d, s)
    \/ \E t \in Threads : UnregHasDevice(t)
    \/ \E t \in Threads : UnregHasSession(t)
    \/ \E t \in Threads : UnregDelSession(t)
    \/ \E t \in Threads : UnregIfEmpty(t)
    \/ \E t \in Threads : UnregDelDevice(t)
    \/ \E t \in Cleaners, i \in IdleChoices : CallCleanup(t, i)
    \/ \E t \in Threads : CleanupStart(t)
    \/ \E t \in Threads : CleanupNextDevice(t)
    \/ \E t \in Threads : CleanupNextSession(t)
    \/ \E t \in Threads : CleanupDelSession(t)
    \/ \E t \in Threads : CleanupIfEmpty(t)
    \/ \E t \in Threads : CleanupDelDevice(t)

SpecCleanupThreads == Init /\ [][NextCleanupThreads]_vars

----------------------------------------------------------------------------
(* The admit-then-register protocol of the connections: each connection    *)
(* passes check_session_limit and later calls register_session under a     *)
(* session id of its own; each call is one step, and the calls of the      *)
(* connections interleave.                                                 *)

\* the session id of connection t
ConnectionSessionId(t) == ToString(t)

\* check_session_limit for connection t; "free" notes the free slots the
\* device had at that time
Admit(t, websocket) ==
    LET device_id == get_device_id_from_websocket(websocket)
    IN  /\ pc[t] = "idle"
        /\ IF ~can_create_session(active_sessions, device_id)
           THEN /\ pc' = [pc EXCEPT ![t] = "rejected"]
                /\ frame' = [frame EXCEPT ![t] =
                                [op |-> "connection", device_id |-> device_id,
                                 free |-> 0, ret |-> FALSE]]
           ELSE /\ pc' = [pc EXCEPT ![t] = "admitted"]
                /\ frame' = [frame EXCEPT ![t] =
                                [op |-> "connection", device_id |-> device_id,
                                 free |-> max_sessions
                                            - get_active_session_count(active_sessions,
                                                                       device_id),
                                 ret |-> FALSE]]
        /\ UNCHANGED <<active_sessions, http_requests, now, last>>

\* register_session for the admitted connection t
RegisterAdmitted(t) ==
    LET run == register_session(active_sessions, frame[t].device_id,
                                ConnectionSessionId(t), "u1", now)
    IN  /\ pc[t] = "admitted"
        /\ active_sessions' = run.sessions
        /\ pc' = [pc EXCEPT ![t] = "done"]
        /\ frame' = [frame EXCEPT ![t] = [@ EXCEPT !.ret = run.ret]]
        /\ UNCHANGED <<http_requests, now, last>>

NextProtocol ==
    \/ \E t \in Threads, ws \in Websockets : Admit(t, ws)
    \/ \E t \in Threads : RegisterAdmitted(t)

SpecProtocol == Init /\ [][NextProtocol]_vars

----------------------------------------------------------------------------
(* Properties of the calls made one after the other *)

\* the records of the registry as (device_id, session_id, SessionInfo) triples
Records(sessions) ==
    UNION { { <<d, s, sessions[d][s]>> : s \in DOMAIN sessions[d] } : d \in DOMAIN sessions }

\* C2: after any sequence of calls on the registry no device key is stored with
\* an entry of zero sessions; when unregister_session has removed the last
\* session of a device its count is 0 and its key is gone from the dict.
C2_NoEmptyEntries ==
    /\ \A d \in DOMAIN active_sessions : DOMAIN active_sessions[d] # {}
    /\ (last.op = "unregister_session" /\ last.ret
          /\ get_active_session_count(active_sessions, last.device_id) = 0)
        => last.device_id \notin DOMAIN active_sessions

\* unregister_session has just removed the only session of a device
C2_Witness ==
    /\ last.op = "unregister_session"
    /\ last.ret
    /\ last.device_id \notin DOMAIN active_sessions

\* C3: register_session on a device holding exactly max_sessions sessions
\* returns False and changes nothing in the registry; on a device holding fewer
\* it returns True and the session is in the device's entry afterwards.
C3_RegisterAtCap ==
    [][(last'.op = "register_session"
          /\ RegisterSession(last'.device_id, last'.session_id, last'.user_id)) =>
             LET d == last'.device_id
                 s == last'.session_id
                 count == Cardinality(DOMAIN DictGet(active_sessions, d, EmptyDict))
             IN  /\ count = max_sessions =>
                       /\ last'.ret = FALSE
                       /\ active_sessions' = active_sessions
                 /\ count < max_sessions =>
                       /\ last'.ret = TRUE
                       /\ d \in DOMAIN active_sessions'
                       /\ s \in DOMAIN active_sessions'[d]]_vars

\* a registration was refused on a device that holds max_sessions sessions
C3_Witness ==
    /\ last.op = "register_session"
    /\ last.ret = FALSE
    /\ last.device_id \in DOMAIN active_sessions
    /\ Cardinality(DOMAIN active_sessions[last.device_id]) = max_sessions

\* the logged calls on one device, oldest first
CallsOf(device_id) == SelectSeq(CallLog, LAMBDA c : c.device_id = device_id)

\* C4: for a device with no earlier request, of MAX_HTTP_REQUESTS_PER_MINUTE + 1
\* calls made one after the other less than one window apart the first
\* MAX_HTTP_REQUESTS_PER_MINUTE return True and the next one False; a call made
\* when every recorded request is older than the window returns True.
C4_WindowFillsAndReopens ==
    \A d \in DeviceIds :
       LET q == CallsOf(d)
           c == MAX_HTTP_REQUESTS_PER_MINUTE
       IN  /\ (Len(q) >= c + 1 /\ q[c + 1].at - q[1].at < WINDOW_SECONDS) =>
                 /\ \A k \in 1..c : q[k].ret
                 /\ ~q[c + 1].ret
           /\ \A k \in 1..Len(q) :
                 (\A j \in 1..(k - 1) : q[j].ret => q[k].at - q[j].at > WINDOW_SECONDS)
                    => q[k].ret

\* a device used up its window, was refused, and was admitted again once its
\* recorded requests had become older than the window
C4_Witness ==
    \E d \in DeviceIds :
       LET q == CallsOf(d)
           c == MAX_HTTP_REQUESTS_PER_MINUTE
       IN  /\ Len(q) = c + 2
           /\ q[c + 1].at - q[1].at < WINDOW_SECONDS
           /\ ~q[c + 1].ret
           /\ q[c + 2].at - q[c].at > WINDOW_SECONDS
           /\ q[c + 2].ret

\* C6: cleanup_stale_sessions(max_idle) removes exactly the records with
\* now - last_activity > max_idle, keeps every other record as it was, and
\* returns the number of records removed; with no such record it returns 0
\* and the registry is unchanged.
C6_CleanupExact ==
    [][(last'.op = "cleanup_stale_sessions"
          /\ CleanupStaleSessions(last'.max_idle_seconds)) =>
             LET i == last'.max_idle_seconds
                 before == Records(active_sessions)
                 idle == { r \in before : now - r[3].last_activity > i }
             IN  /\ Records(active_sessions') = before \ idle
                 /\ last'.ret = Cardinality(idle)
                 /\ idle = {} => (last'.ret = 0 /\ active_sessions' = active_sessions)]_vars

\* a cleanup removed some session and kept another one
C6_Witness ==
    /\ last.op = "cleanup_stale_sessions"
    /\ last.at = now
    /\ last.ret > 0
    /\ active_sessions # EmptyDict

\* C8: unregister_session returns True exactly when the record was present,
\* and then removes that record and no other; when the record or the device is
\* absent it returns False and the registry is unchanged.
C8_UnregisterExact ==
    [][(last'.op = "unregister_session"
          /\ UnregisterSession(last'.device_id, last'.session_id)) =>
             LET d == last'.device_id
                 s == last'.session_id
                 present == d \in DOMAIN active_sessions /\ s \in DOMAIN active_sessions[d]
             IN  /\ last'.ret = present
                 /\ present => Records(active_sessions')
                                  = Records(active_sessions) \ {<<d, s, active_sessions[d][s]>>}
                 /\ ~present => active_sessions' = active_sessions]_vars

\* unregister_session removed one session of a device that keeps another
C8_Witness ==
    /\ last.op = "unregister_session"
    /\ last.ret
    /\ last.device_id \in DOMAIN active_sessions

\* C9: register_session for a (device_id, session_id) that is already registered
\* leaves the device's set of session ids, hence its count, as it was; when the
\* call is admitted the one record under that id is the new SessionInfo and
\* the other records are untouched.
C9_ReRegister ==
    [][(last'.op = "register_session"
          /\ RegisterSession(last'.device_id, last'.session_id, last'.user_id)
          /\ HasSession(active_sessions, last'.device_id, last'.session_id)) =>
             LET d == last'.device_id
                 s == last'.session_id
                 u == last'.user_id
             IN  /\ DOMAIN active_sessions' = DOMAIN active_sessions
                 /\ DOMAIN active_sessions'[d] = DOMAIN active_sessions[d]
                 /\ get_active_session_count(active_sessions', d)
                      = get_active_session_count(active_sessions, d)
                 /\ last'.ret =>
                      /\ active_sessions'[d][s] = SessionInfo(s, u, now)
                      /\ Records(active_sessions') \ {<<d, s, active_sessions'[d][s]>>}
                           = Records(active_sessions) \ {<<d, s, active_sessions[d][s]>>}]_vars

\* an admitted re-registration has replaced the record of a session by a record
\* made later, and the device still holds a single session
C9_Witness ==
    /\ last.op = "register_session"
    /\ last.ret
    /\ last.was_present
    /\ now > 0
    /\ Cardinality(DOMAIN active_sessions[last.device_id]) = 1
    /\ active_sessions[last.device_id][last.session_id].created_at = now

\* C10: check_session_limit raises the session-limit error, carrying the
\* current count, exactly when the device derived from the connection holds
\* max_sessions sessions or more, and otherwise returns that device id; either
\* way the registry and the request windows are left as they were.
C10_CheckSessionLimit ==
    [][(last'.op = "check_session_limit" /\ CheckSessionLimit(last'.websocket)) =>
             LET d == get_device_id_from_websocket(last'.websocket)
                 count == IF d \in DOMAIN active_sessions
                          THEN Cardinality(DOMAIN active_sessions[d]) ELSE 0
             IN  /\ last'.raised <=> count >= max_sessions
                 /\ last'.raised => /\ last'.detail.error = "session_limit_exceeded"
                                    /\ last'.detail.current = count
                 /\ ~last'.raised => last'.ret = d
                 /\ active_sessions' = active_sessions
                 /\ http_requests' = http_requests]_vars

\* check_session_limit raised for a device at the cap that also has a request
\* window stored
C10_Witness ==
    /\ last.op = "check_session_limit"
    /\ last.raised
    /\ last.detail.current = max_sessions
    /\ get_device_id_from_websocket(last.websocket) \in DOMAIN http_requests
    /\ http_requests[get_device_id_from_websocket(last.websocket)] # <<>>

\* C11: get_stats reports as total_devices the number of devices that hold at
\* least one session, as total_sessions the number of session records over all
\* devices and as max_sessions_per_device the cap, so that
\* total_devices <= total_sessions <= total_devices * max_sessions; the call
\* changes neither the registry nor the request windows.
C11_StatsAggregate ==
    [][(last'.op = "get_stats" /\ GetStats) =>
          LET stats == last'.ret
              holders == { d \in DeviceIds :
                             get_active_session_count(active_sessions, d) >= 1 }
              records == Cardinality(Records(active_sessions))
          IN  /\ stats.total_devices = Cardinality(holders)
              /\ stats.total_sessions = records
              /\ stats.max_sessions_per_device = max_sessions
              /\ stats.total_devices <= stats.total_sessions
              /\ stats.total_sessions <= stats.total_devices * max_sessions
              /\ active_sessions' = active_sessions
              /\ http_requests' = http_requests]_vars

\* get_stats has reported two devices that hold three sessions between them
C11_Witness ==
    /\ last.op = "get_stats"
    /\ last.ret.total_devices = 2
    /\ last.ret.total_sessions = 3
    /\ Cardinality(DOMAIN active_sessions) = 2

\* the steps that derive a device id
DerivesDeviceId(call) ==
    call.op \in {"get_device_id_from_websocket", "get_device_id_from_request"}

\* the agent of a connection: "unknown" when the header is absent or empty
SelectedAgent(connection) ==
    IF "user-agent" \in DOMAIN connection.headers
       /\ connection.headers["user-agent"] # <<>>
    THEN connection.headers["user-agent"]
    ELSE UNKNOWN

\* first comma-separated entry, trimmed
FirstEntry(value) == Strip(SplitFirst(value, ","))

PeerOrUnknown(connection) ==
    IF connection.client # <<>> THEN connection.client[1].host ELSE UNKNOWN

\* the address selected from the headers that are present
PresentAddress(connection) ==
    IF "x-forwarded-for" \in DOMAIN connection.headers
    THEN FirstEntry(connection.headers["x-forwarded-for"])
    ELSE IF "x-real-ip" \in DOMAIN connection.headers
    THEN connection.headers["x-real-ip"]
    ELSE PeerOrUnknown(connection)

\* the address selected from the headers that are present and not empty
SelectedAddress(connection) ==
    IF "x-forwarded-for" \in DOMAIN connection.headers
       /\ connection.headers["x-forwarded-for"] # <<>>
    THEN FirstEntry(connection.headers["x-forwarded-for"])
    ELSE IF "x-real-ip" \in DOMAIN connection.headers
            /\ connection.headers["x-real-ip"] # <<>>
    THEN connection.headers["x-real-ip"]
    ELSE PeerOrUnknown(connection)

\* C12 as stated: the device id is determined by the address selected as the
\* first entry of the forwarded-for header if that header is present, else
\* the real-IP header, else the peer address, else "unknown", and by the
\* agent ("unknown" when absent or empty): two derivations that agree on
\* both yield the same device id.
C12_KeyOfPresentHeaders ==
    [][(DerivesDeviceId(last) /\ DerivesDeviceId(last')
          /\ PresentAddress(last.connection) = PresentAddress(last'.connection)
          /\ SelectedAgent(last.connection) = SelectedAgent(last'.connection)) =>
             last'.ret = last.ret]_vars

\* C12 amended: the device id is determined by the selected address and the
\* agent, where a forwarded-for or real-IP header is used only if it is
\* present and not empty; so a forwarded-for value with several entries
\* yields the device id of its first entry, and an absent or empty agent
\* that of the agent "unknown".
C12_KeyOfSelectedAddress ==
    [][(DerivesDeviceId(last) /\ DerivesDeviceId(last')
          /\ SelectedAddress(last.connection) = SelectedAddress(last'.connection)
          /\ SelectedAgent(last.connection) = SelectedAgent(last'.connection)) =>
             last'.ret = last.ret]_vars

\* a device id was derived from a forwarded-for header with two entries, sent
\* with an empty agent and next to a real-IP header; it is the device id of
\* the bare first entry with the agent "unknown"
C12_Witness ==
    /\ DerivesDeviceId(last)
    /\ DictGet(last.connection.headers, "x-forwarded-for", <<>>) = <<"A", ",", " ", "b">>
    /\ DictGet(last.connection.headers, "x-real-ip", <<>>) = <<"b">>
    /\ DictGet(last.connection.headers, "user-agent", UNKNOWN) = <<>>
    /\ last.ret = generate_device_fingerprint(<<"A">>, UNKNOWN, <<>>)
    /\ last.ret = get_device_id_from_websocket(
                      [headers |-> EmptyDict, client |-> <<[host |-> <<"a">>]>>])

\* the entry a dict holds for a key: <<value>>, or <<>> when the key is absent
EntryOf(dict, key) == IF key \in DOMAIN dict THEN <<dict[key]>> ELSE <<>>

\* calls that take the device id they act on
DeviceCalls ==
    {"get_active_session_count", "can_create_session", "register_session",
     "unregister_session", "check_http_rate_limit", "get_rate_limit_error_response"}

\* C13: the session registry and the request windows share no state:
\* register_session, unregister_session and cleanup_stale_sessions leave every
\* device's request timestamps unchanged, check_http_rate_limit leaves every
\* device's sessions unchanged, and a call on one device id leaves the
\* sessions and the request window of every other device id unchanged
\* (cleanup_stale_sessions, which takes no device id, only removes sessions).
C13_Frames ==
    [][/\ last'.op \in {"register_session", "unregister_session", "cleanup_stale_sessions"}
          => http_requests' = http_requests
       /\ last'.op = "check_http_rate_limit" => active_sessions' = active_sessions
       /\ last'.op \in DeviceCalls =>
             \A other \in DeviceIds \ {last'.device_id} :
                /\ EntryOf(active_sessions', other) = EntryOf(active_sessions, other)
                /\ EntryOf(http_requests', other) = EntryOf(http_requests, other)
       /\ last'.op = "cleanup_stale_sessions" =>
             Records(active_sessions') \subseteq Records(active_sessions)]_vars

\* a session of one device has just been unregistered while another device
\* holds a session with the same id and both devices have requests in their
\* windows
C13_Witness ==
    /\ last.op = "unregister_session"
    /\ last.ret = TRUE
    /\ \E other \in DeviceIds \ {last.device_id} :
          /\ HasSession(active_sessions, other, last.session_id)
          /\ other \in DOMAIN http_requests
          /\ http_requests[other] # <<>>
    /\ last.device_id \in DOMAIN http_requests
    /\ http_requests[last.device_id] # <<>>

\* sessions registered longer ago than the idle horizon of the periodic task
Overdue ==
    { r \in Records(active_sessions) : now - r[3].last_activity > IdleHorizon }

\* C14: under the periodic reclamation task every registered session that is
\* neither unregistered nor registered again is eventually removed (again and
\* again the registry holds no session older than the idle horizon), and a
\* device at the cap eventually may create a session again.
C14_IdleSessionsReclaimed ==
    /\ []<>(Overdue = {})
    /\ \A d \in DeviceIds :
          (get_active_session_count(active_sessions, d) = max_sessions)
             ~> can_create_session(active_sessions, d)

\* a sweep of the periodic task has just removed the sessions of a device
\* that was at the cap, and the device may create a session again
C14_Witness ==
    /\ last.op = "cleanup_stale_sessions"
    /\ last.max_idle_seconds = IdleHorizon
    /\ last.ret = max_sessions
    /\ active_sessions = EmptyDict
    /\ \A d \in DeviceIds : can_create_session(active_sessions, d)

\* C15: right after check_http_rate_limit(device_id) called at time now, every
\* timestamp t stored for the device satisfies now - window < t <= now (one
\* exactly a window old is dropped) and at most MAX_HTTP_REQUESTS_PER_MINUTE
\* are stored; when the call returns False the stored list is the pruned
\* list, when it returns True it is the pruned list with now appended.
C15_WindowAfterCall ==
    [][(last'.op = "check_http_rate_limit" /\ CheckHttpRateLimitLogged(last'.device_id)) =>
          LET d == last'.device_id
              before == DictGet(http_requests, d, <<>>)
              pruned == SelectSeq(before, LAMBDA t : now - t < WINDOW_SECONDS)
              stored == EntryOf(http_requests', d)
          IN  /\ stored # <<>>
              /\ \A i \in 1..Len(stored[1]) :
                    now - WINDOW_SECONDS < stored[1][i] /\ stored[1][i] <= now
              /\ Len(stored[1]) <= MAX_HTTP_REQUESTS_PER_MINUTE
              /\ ~last'.ret => stored[1] = pruned
              /\ last'.ret => stored[1] = Append(pruned, now)]_vars

\* a device filled its window at time 0 and called again exactly one window
\* later: the old timestamps were dropped and only the new one is stored
C15_Witness ==
    \E d \in DeviceIds :
       LET q == CallsOf(d)
           c == MAX_HTTP_REQUESTS_PER_MINUTE
       IN  /\ last.op = "check_http_rate_limit"
           /\ last.device_id = d
           /\ Len(q) = c + 1
           /\ \A k \in 1..c : q[k].at = 0 /\ q[k].ret
           /\ q[c + 1].at = WINDOW_SECONDS
           /\ q[c + 1].ret
           /\ now = WINDOW_SECONDS
           /\ http_requests[d] = <<WINDOW_SECONDS>>

\* C16: once cleanup_stale_sessions has run, a device that made no call
\* (register_session or check_http_rate_limit) for longer than the idle
\* horizon of the sweep has no entry left in the session registry and no
\* entry (key or timestamps) left in the request windows.
C16_StorageBounded ==
    (last.op = "cleanup_stale_sessions" /\ last.at = now) =>
       \A d \in DeviceIds :
          LET q == CallsOf(d)
          IN  (q # <<>> /\ now - q[Len(q)].at > last.max_idle_seconds) =>
                 /\ d \notin DOMAIN active_sessions
                 /\ d \notin DOMAIN http_requests

\* the calls of a log that returned True at a time in (T - window, T]
AllowedWithin(q, T) ==
    { k \in 1..Len(q) : q[k].ret /\ T - WINDOW_SECONDS < q[k].at /\ q[k].at <= T }

\* C17: for every device and every time T, of the check_http_rate_limit
\* calls made one after the other at non-decreasing times at most
\* MAX_HTTP_REQUESTS_PER_MINUTE returned True at a time in (T - window, T].
C17_EveryTrailingWindow ==
    \A d \in DeviceIds, T \in 0..MaxTime :
       Cardinality(AllowedWithin(CallsOf(d), T)) <= MAX_HTTP_REQUESTS_PER_MINUTE

\* a window that is not aligned to the first request is full: the device was
\* admitted at time 0, then up to the capacity half a window later, then once
\* more a full window after its first request, and refused right after
C17_Witness ==
    \E d \in DeviceIds :
       LET q == CallsOf(d)
           c == MAX_HTTP_REQUESTS_PER_MINUTE
       IN  /\ Len(q) = c + 2
           /\ q[1].at = 0 /\ q[1].ret
           /\ \A k \in 2..c : q[k].at = TickStep /\ q[k].ret
           /\ q[c + 1].at = WINDOW_SECONDS /\ q[c + 1].ret
           /\ q[c + 2].at = WINDOW_SECONDS /\ ~q[c + 2].ret
           /\ Cardinality(AllowedWithin(q, WINDOW_SECONDS)) = c

\* the step is a register_session call for (d, s) that returned True
RegisteredBy(call, d, s) ==
    /\ call.op = "register_session"
    /\ call.device_id = d
    /\ call.session_id = s
    /\ call.ret

\* (time passes between the calls, never during one: a step that leaves now
\* unchanged is the call noted in last')
\* C18: the last_activity of a record changes only by a register_session call
\* that creates or overwrites the record, which sets it to the time of the
\* call; no check_http_rate_limit, can_create_session or check_session_limit
\* call changes the registry; so cleanup_stale_sessions(max_idle) removes a
\* record exactly when more than max_idle has passed since the record's most
\* recent registration.
C18_LastActivityIsRegistrationTime ==
    [][/\ \A d \in DeviceIds, s \in SessionIdsAll :
             /\ (HasSession(active_sessions, d, s) /\ HasSession(active_sessions', d, s)
                   /\ active_sessions'[d][s].last_activity
                         # active_sessions[d][s].last_activity)
                   => RegisteredBy(last', d, s)
             /\ (RegisteredBy(last', d, s) /\ now' = now)
                   => /\ HasSession(active_sessions', d, s)
                      /\ active_sessions'[d][s].last_activity = now
             /\ (last'.op = "cleanup_stale_sessions" /\ now' = now
                   /\ HasSession(active_sessions, d, s))
                   => (HasSession(active_sessions', d, s)
                         <=> ~(now - active_sessions[d][s].last_activity
                                  > last'.max_idle_seconds))
       /\ last'.op \in {"check_http_rate_limit", "can_create_session", "check_session_limit"}
             => active_sessions' = active_sessions]_vars

\* a sweep has just removed a session and kept one that the same device had
\* registered again later, after requests of the device had been admitted
C18_Witness ==
    /\ last.op = "cleanup_stale_sessions"
    /\ last.at = now
    /\ last.max_idle_seconds < TickStep
    /\ last.ret = 1
    /\ \E d \in DeviceIds :
          /\ get_active_session_count(active_sessions, d) = 1
          /\ \A s \in DOMAIN active_sessions[d] :
                /\ active_sessions[d][s].last_activity = now
                /\ active_sessions[d][s].created_at = now
          /\ d \in DOMAIN http_requests
          /\ Len(http_requests[d]) = MAX_HTTP_REQUESTS_PER_MINUTE

\* C19: on a device at the cap, register_session for a session id the device
\* already holds returns False and leaves the existing record (owner and
\* timestamps) as it was; registering an existing session id again returns
\* True and overwrites the record only while the device holds fewer than
\* max_sessions sessions.
C19_ReRegisterAtCap ==
    [][(last'.op = "register_session"
          /\ HasSession(active_sessions, last'.device_id, last'.session_id)
          /\ RegisterSession(last'.device_id, last'.session_id, last'.user_id)) =>
             LET d == last'.device_id
                 s == last'.session_id
                 at_cap == get_active_session_count(active_sessions, d) = max_sessions
             IN  /\ at_cap =>
                       /\ ~last'.ret
                       /\ HasSession(active_sessions', d, s)
                       /\ active_sessions'[d][s] = active_sessions[d][s]
                 /\ last'.ret <=> ~at_cap
                 /\ last'.ret =>
                       /\ active_sessions'[d][s].user_id = last'.user_id
                       /\ active_sessions'[d][s].created_at = now
                       /\ active_sessions'[d][s].last_activity = now]_vars

\* a device at the cap was refused the registration of a session id it
\* holds, asked for by another user at a later time: the old record stands
C19_Witness ==
    /\ last.op = "register_session"
    /\ last.was_present
    /\ ~last.ret
    /\ get_active_session_count(active_sessions, last.device_id) = max_sessions
    /\ active_sessions[last.device_id][last.session_id].user_id # last.user_id
    /\ active_sessions[last.device_id][last.session_id].created_at < now

----------------------------------------------------------------------------
(* Properties of the calls made by concurrent threads *)

Quiescent == \A t \in Threads : pc[t] \in {"idle", "done"}

RegisterCallers(device_id) ==
    { t \in Threads : frame[t].op = "register_session" /\ frame[t].device_id = device_id }

HttpCallers(device_id) ==
    { t \in Threads : frame[t].op = "check_http_rate_limit"
                       /\ frame[t].device_id = device_id }

Admitted(callers) == { t \in callers : pc[t] = "done" /\ frame[t].ret }

\* C1: when more than max_sessions threads register pairwise distinct sessions
\* on one empty device, with no other call running, exactly max_sessions of the
\* calls return True, and no device ever holds more than max_sessions sessions.
C1_ConcurrentRegisterCap ==
    \A d \in DeviceIds :
       /\ get_active_session_count(active_sessions, d) <= max_sessions
       /\ (/\ Cardinality(RegisterCallers(d)) > max_sessions
           /\ \A t \in RegisterCallers(d) : pc[t] = "done")
          => Cardinality(Admitted(RegisterCallers(d))) = max_sessions

\* C5: of the concurrent check_http_rate_limit calls made on one device within
\* one window at most MAX_HTTP_REQUESTS_PER_MINUTE return True, and once the
\* calls have returned the stored list holds a timestamp for every call that
\* returned True.
C5_ConcurrentAllowAtomic ==
    \A d \in DeviceIds :
       /\ Cardinality(Admitted(HttpCallers(d))) <= MAX_HTTP_REQUESTS_PER_MINUTE
       /\ Quiescent =>
             Len(DictGet(http_requests, d, <<>>)) >= Cardinality(Admitted(HttpCallers(d)))

\* a register_session call that returned True and whose record nobody was
\* entitled to remove: no unregister_session was called for it and no cleanup
\* ran at a time at which a registration of it was idle beyond the threshold
MustBePresent(device_id, session_id) ==
    /\ \E t \in Threads : /\ frame[t].op = "register_session"
                           /\ frame[t].device_id = device_id
                           /\ frame[t].session_id = session_id
                           /\ frame[t].ret
    /\ \A t \in Threads : ~(/\ frame[t].op = "unregister_session"
                             /\ frame[t].device_id = device_id
                             /\ frame[t].session_id = session_id)
    /\ \A t, r \in Threads :
          (/\ frame[t].op = "cleanup_stale_sessions"
           /\ frame[r].op = "register_session"
           /\ frame[r].device_id = device_id
           /\ frame[r].session_id = session_id
           /\ frame[r].ret)
          => frame[t].now - frame[r].at <= frame[t].max_idle_seconds

\* C7: with cleanup_stale_sessions running next to register_session and
\* unregister_session no call fails, no device ever holds more than
\* max_sessions sessions, and once the calls have returned no device entry is
\* empty and no registered session that is neither unregistered nor idle
\* beyond the threshold is missing.
C7_ConcurrentCleanupSafe ==
    /\ \A t \in Threads : frame[t].op # "none" => frame[t].raised = ""
    /\ \A d \in DeviceIds : get_active_session_count(active_sessions, d) <= max_sessions
    /\ Quiescent =>
          /\ \A d \in DOMAIN active_sessions : DOMAIN active_sessions[d] # {}
          /\ \A d \in DeviceIds, s \in SessionIds :
                MustBePresent(d, s) => HasSession(active_sessions, d, s)

----------------------------------------------------------------------------
(* Properties of the admit-then-register protocol *)

\* the connections that passed check_session_limit for the device while it had
\* r free slots
AdmittedWith(device_id, r) ==
    { t \in Threads : /\ frame[t].op = "connection"
                      /\ pc[t] \in {"admitted", "done"}
                      /\ frame[t].device_id = device_id
                      /\ frame[t].free = r }

\* the connections whose register_session call returned True
Registered(connections) == { t \in connections : pc[t] = "done" /\ frame[t].ret }

Min(a, b) == IF a <= b THEN a ELSE b

====
